---- MODULE Spec2Model ----
(***************************************************************************)
(* A model of the reading-room metadata crawler, script/cia_fetchmetadata. *)
(* One run of main() is a process: it loads the progress file, walks the   *)
(* result pages one at a time, classifies every response, retries, commits *)
(* and at the end saves once more.  The disk (progress file, item list,    *)
(* debug artifacts) outlives the run.                                      *)
(***************************************************************************)
EXTENDS Integers, Sequences, FiniteSets, TLC

VARIABLES
    progress_file,      \* disk: <name>.progress.json
    jsonl_file,         \* disk: <name>.jsonl, the downstream item list
    debug_files,        \* disk: debug_page_* / debug_empty_page_* artifacts
    args,               \* the command line of the current run
    pc,                 \* position of the run in main()
    existing_output,    \* what the run loaded at startup
    start_page,
    page,
    pages_scraped,      \* the list main() appends to
    pages,              \* page numbers of all_results['pages']
    all_urls,           \* all_results['all_urls']
    consecutive_empty,
    attempt,            \* index of the for loop over range(max_retries)
    request_failed,
    stop_search,
    requests,           \* history: GETs issued for the page being fetched
    writes,             \* history: progress-file writes of this run
    last,               \* history: what the last attempt did
    server,             \* the remote side: Any, or a fixed answer per page
    phase,              \* resume experiment: "first", "resumed"
    snap,               \* resume experiment: a checkpoint kept after a commit
    first_final,        \* resume experiment: the one-pass run's final checkpoint
    challenge_html,     \* solver harness: the body handed to the solver
    solver_env,         \* solver harness: what the network does to the solver
    solver_out,         \* solver harness: what the solver returned and sent
    environ,            \* the environment after load_dotenv(): the cookie values
    legacy_json_file,   \* disk: <name>.json of an older version, only read
    prior,              \* two invocations: the disk as the invocation found it
    torn,               \* history: the write a crash of the process cut short
    first_exit,         \* two invocations: how the first one ended
    use_httpcloak,      \* USE_HTTPCLOAK: the import of httpcloak succeeded
    session,            \* the handle the variable session names
    used,               \* history: the handle the last request went out on
    recycled            \* history: the last session refresh

vars == << progress_file, jsonl_file, debug_files, args, pc, existing_output,
           writes, start_page, page,
           pages_scraped, pages, all_urls, consecutive_empty, attempt,
           request_failed, stop_search, requests, last, server,
           phase, snap, first_final, challenge_html, solver_env, solver_out,
           environ, legacy_json_file, prior, torn, first_exit,
           use_httpcloak, session, used, recycled >>

----------------------------------------------------------------------------
\* Bounds of the model.

\* Result pages are numbered 0 .. MaxPage.
MaxPage == 2

\* Largest --max-retries the model tries.
MaxRetriesArg == 2

\* Largest --max-pages the model tries.
MaxPagesArg == 2

----------------------------------------------------------------------------
\* Program constants.

\* j = i + 902645594
FIXED_OFFSET == 902645594

\* len(response_text) < 10000
REAL_CONTENT_SIZE == 10000

\* len(response_text) > 50000
EMPTY_DEBUG_SIZE == 50000

\* consecutive_empty >= 2
EMPTY_STOP == 2

----------------------------------------------------------------------------
\* Values.

Pages == 0 .. MaxPage

\* Python's None for an optional integer: the empty sequence; <<n>> is n.
None == << >>
Some(n) == << n >>
IsNone(o) == o = << >>
Val(o) == o[1]

Range(s) == { s[i] : i \in 1 .. Len(s) }

Doc(u, t) == [url |-> u, title |-> t]

\* A response body, by the features the program reads from its text.
\*   len      len(text)
\*   word     the spelling of "unavailable" the text holds, "" for none
\*   sec      the text holds "_sec/verify"
\*   bmword   the text holds "bm-verify" outside a "bm-verify": "..." pair
\*   token    the value of the first "bm-verify": "..." pair, "" for none
\*   seed     the digits of the first  var i = <digits>;  << >> for none
\*   items    the document links of the search-results list
\*   pager    the pager has a "next" entry
Body(l, w, sec, bmw, tok, seed, its, pg) ==
    [len |-> l, word |-> w, sec |-> sec, bmword |-> bmw, token |-> tok,
     seed |-> seed, items |-> its, pager |-> pg]

Plain(l, its, pg) == Body(l, "", FALSE, FALSE, "", << >>, its, pg)

Challenge(l, tok, seed, its) == Body(l, "", TRUE, FALSE, tok, seed, its, FALSE)

NoBody == Plain(0, << >>, FALSE)

----------------------------------------------------------------------------
\* Pure functions of the program.

\* str.upper() on the search terms the model uses.
Upper(w) ==
    CASE w = "oswald" -> "OSWALD"
      [] w = "timeout" -> "TIMEOUT"
      [] OTHER -> w

\* str.lower() on the spellings of the words the model uses.
Lower(w) ==
    CASE w = "Unavailable" -> "unavailable"
      [] w = "UNAVAILABLE" -> "unavailable"
      [] w = "OSWALD" -> "oswald"
      [] w = "TIMEOUT" -> "timeout"
      [] OTHER -> w

\* response.text and 'unavailable' in response.text.lower()
ContainsUnavailable(text) == text.len > 0 /\ Lower(text.word) = "unavailable"

\* Variant of IsRedirectStatus that knows 302 alone.
IsFoundStatus(status) == status = 302

\* response.status_code in [301, 302, 303, 307, 308]
IsRedirectStatus(status) == status \in {301, 302, 303, 307, 308}

\* Variant of IsRateLimited that looks at the status alone.
IsUnavailableStatus(status, text) == status = 503

\* response.status_code == 503 or ('unavailable' in text.lower())
IsRateLimited(status, text) == status = 503 \/ ContainsUnavailable(text)

\* response.raise_for_status(): raises for 4xx and 5xx.
RaisesForStatus(status) == status >= 400 /\ status < 600

\* str(e) of the HTTPError raise_for_status() raises.
HttpErrorMsg(status) ==
    CASE status = 404 -> "404 Client Error: Not Found"
      [] status = 408 -> "408 Client Error: Request Timeout"
      [] status = 500 -> "500 Server Error: Internal Server Error"
      [] status = 504 -> "504 Server Error: Gateway Timeout"
      [] OTHER -> "Client Error"

\* get_search_url(search_term, page): the URL, by the upper-cased search
\* term in its path and the page number of its query.
get_search_url(search_term, p) == [term |-> Upper(search_term), page |-> p]

\* 'timeout' in err_msg.lower(), for the URL at the end of an HTTPError's
\* message ("... for url: <url>"): the search term is the one part of the
\* URL that varies.
UrlHoldsTimeout(url) == Lower(url.term) = "timeout"

\* 'context deadline exceeded' in err_msg or 'timeout' in err_msg.lower()
IsTimeoutMsg(err_msg) ==
    err_msg \in { "context deadline exceeded",
                  "Read timed out. (read timeout=60)",
                  "Read timed out. (read timeout=30)",
                  "408 Client Error: Request Timeout",
                  "504 Server Error: Gateway Timeout" }

\* int() of a string of decimal digits.
RECURSIVE int(_)
int(digits) ==
    IF digits = << >> THEN 0
    ELSE 10 * int(SubSeq(digits, 1, Len(digits) - 1)) + digits[Len(digits)]

\* "_sec/verify" in html and "bm-verify" in html
HasMarkers(html) == html.sec /\ (html.bmword \/ html.token # "")

\* parse_akamai_interstitial(html): [bm_verify, pow_j], None for neither.
NoParse == [bm_verify |-> "", pow_j |-> None]

\* Variant of Pow that adds the two halves of the offset as numbers.
PowOfHalves(i) == i + 9026 + 45594

\* j = i + 902645594  # Number("9026" + "45594")
Pow(i) == i + FIXED_OFFSET

parse_akamai_interstitial(html) ==
    IF ~HasMarkers(html) THEN NoParse
    ELSE IF html.seed = << >> \/ html.token = "" THEN NoParse
    ELSE [bm_verify |-> html.token, pow_j |-> Some(Pow(int(html.seed)))]

\* extract_document_urls(html_content, base_url)
extract_document_urls(html) == html.items

\* Variant of check_for_next_page that never finds a next entry.
no_next_page(html) == FALSE

\* check_for_next_page(html_content)
check_for_next_page(html) == html.pager

\* any(u['url'] == url_item['url'] for u in all_urls)
HasUrl(urls, url_item) == \E i \in 1 .. Len(urls) : urls[i].url = url_item.url

\* Variant of MergeUrls without the check for a known URL.
MergeNoDedup(urls, page_urls) == urls \o page_urls

\* The loop that adds a page's documents to all_urls, skipping known URLs.
RECURSIVE MergeUrls(_, _)
MergeUrls(urls, page_urls) ==
    IF page_urls = << >> THEN urls
    ELSE MergeUrls(IF HasUrl(urls, Head(page_urls)) THEN urls
                   ELSE Append(urls, Head(page_urls)),
                   Tail(page_urls))

\* sorted(pages_scraped)
RECURSIVE sorted(_)
sorted(s) ==
    IF s = << >> THEN << >>
    ELSE LET m == CHOOSE x \in Range(s) : \A y \in Range(s) : x <= y
             i == CHOOSE k \in 1 .. Len(s) : s[k] = m
         IN  << m >> \o sorted(SubSeq(s, 1, i - 1) \o SubSeq(s, i + 1, Len(s)))

\* max(pages_scraped)
max(s) == CHOOSE x \in Range(s) : \A y \in Range(s) : y <= x

\* Variant of write_jsonl that writes the url of an entry without its title.
write_jsonl_urls(urls) ==
    [exists |-> TRUE,
     lines |-> [i \in 1 .. Len(urls) |-> Doc(urls[i].url, "")]]

\* write_jsonl(all_urls, jsonl_path): one {"url", "title"} line per entry.
write_jsonl(urls) ==
    [exists |-> TRUE,
     lines |-> [i \in 1 .. Len(urls) |-> Doc(urls[i].url, urls[i].title)]]

\* The body of {"bm-verify": bm_verify, "pow": pow_j}; NoPost: nothing posted.
NoPost == [sent |-> FALSE, bm_verify |-> "", pow |-> None]
Payload(p) == [sent |-> TRUE, bm_verify |-> p.bm_verify, pow |-> p.pow_j]

\* What a request of the solver raises when the network fails it.
SOLVER_TIMEOUT == "Read timed out. (read timeout=30)"

\* Variant of solve_akamai_interstitial without the except clause: what the
\* POST or the replay GET raises leaves the function.
solve_without_except(html, env) ==
    LET p == parse_akamai_interstitial(html)
    IN  IF p.bm_verify = ""
        THEN [text |-> html, solved |-> FALSE, posted |-> NoPost, replayed |-> FALSE,
              raised |-> ""]
        ELSE IF env.post_raises
        THEN [text |-> html, solved |-> FALSE, posted |-> Payload(p), replayed |-> FALSE,
              raised |-> SOLVER_TIMEOUT]
        ELSE IF env.get_raises
        THEN [text |-> html, solved |-> FALSE, posted |-> Payload(p), replayed |-> TRUE,
              raised |-> SOLVER_TIMEOUT]
        ELSE [text |-> env.text, solved |-> env.text.len > REAL_CONTENT_SIZE,
              posted |-> Payload(p), replayed |-> TRUE, raised |-> ""]

\* solve_akamai_interstitial(session, url, headers, challenge_html, ...).
\* env says what the network does: the POST raises, the replay GET raises,
\* or the replay GET answers env.text.  The result also names the requests
\* the solver issued and the exception that left the function ("": none,
\* the except clause catches what the two requests raise).
solve_akamai_interstitial(html, env) ==
    LET p == parse_akamai_interstitial(html)
    IN  IF p.bm_verify = ""
        THEN [text |-> html, solved |-> FALSE, posted |-> NoPost, replayed |-> FALSE,
              raised |-> ""]
        ELSE IF env.post_raises
        THEN [text |-> html, solved |-> FALSE, posted |-> Payload(p), replayed |-> FALSE,
              raised |-> ""]
        ELSE IF env.get_raises
        THEN [text |-> html, solved |-> FALSE, posted |-> Payload(p), replayed |-> TRUE,
              raised |-> ""]
        ELSE [text |-> env.text, solved |-> env.text.len > REAL_CONTENT_SIZE,
              posted |-> Payload(p), replayed |-> TRUE, raised |-> ""]

----------------------------------------------------------------------------
\* The remote side: what one GET of a result page can come back with.

d1  == Doc("u1", "t1")
d1b == Doc("u1", "t2")
d2  == Doc("u2", "t1")
d3  == Doc("u3", "t1")

\* A response: an exception of the transport (exc is its message), or an
\* HTTP response with a status and a text.
Exc(msg) == [exc |-> msg, status |-> 0, text |-> NoBody]
Http(status, text) == [exc |-> "", status |-> status, text |-> text]

\* What the network does to the solver's two requests: the POST raises,
\* the replay GET raises, or the replay GET answers with a status and a
\* text (r3).
SolverEnv(post_raises, get_raises, text) ==
    [post_raises |-> post_raises, get_raises |-> get_raises, status |-> 200,
     text |-> text]
Replay(status, text) == [SolverEnv(FALSE, FALSE, text) EXCEPT !.status = status]
NoEnv == SolverEnv(FALSE, FALSE, NoBody)

ItemLists == { << >>, << d1 >>, << d1b, d2 >>, << d2, d2 >> }

ContentBodies ==
    { Plain(REAL_CONTENT_SIZE, its, pg) : its \in ItemLists, pg \in BOOLEAN }
    \cup { Plain(EMPTY_DEBUG_SIZE + 1, << >>, TRUE) }

ChallengeBody == Challenge(REAL_CONTENT_SIZE - 1, "tokA", << 4, 2 >>, << d3 >>)

Responses ==
    { Http(200, b) : b \in ContentBodies }
    \cup { Http(200, Plain(REAL_CONTENT_SIZE - 1, << d3 >>, TRUE)),
           Http(200, ChallengeBody),
           Http(200, Challenge(REAL_CONTENT_SIZE, "tokA", << 4, 2 >>, << d3 >>)),
           Http(200, Body(500, "Unavailable", TRUE, FALSE, "tokA", << 4, 2 >>,
                          << >>, FALSE)),
           Http(200, Body(500, "", TRUE, TRUE, "", << >>, << >>, FALSE)),
           Http(200, Body(EMPTY_DEBUG_SIZE + 1, "unavailable", FALSE, FALSE, "",
                          << >>, << d3 >>, TRUE)),
           Http(503, Plain(REAL_CONTENT_SIZE, << d3 >>, TRUE)),
           Http(302, NoBody),
           Http(307, Plain(REAL_CONTENT_SIZE, << d3 >>, TRUE)),
           Http(304, Plain(REAL_CONTENT_SIZE, << d3 >>, FALSE)),
           Http(404, NoBody),
           Http(504, NoBody),
           Exc("context deadline exceeded"),
           Exc("Connection refused") }

SolverEnvs ==
    { SolverEnv(TRUE, FALSE, NoBody), SolverEnv(FALSE, TRUE, NoBody) }
    \cup { SolverEnv(FALSE, FALSE, b) :
             b \in { Plain(REAL_CONTENT_SIZE + 1, << d2 >>, TRUE),
                     Plain(REAL_CONTENT_SIZE + 1, << >>, FALSE),
                     Plain(REAL_CONTENT_SIZE, << d2 >>, TRUE),
                     Plain(500, << >>, FALSE) } }
    \cup { Replay(302, Plain(REAL_CONTENT_SIZE + 1, << d2 >>, FALSE)),
           Replay(503, Body(REAL_CONTENT_SIZE + 1, "unavailable", FALSE, FALSE,
                            "", << >>, << d2 >>, FALSE)) }

\* The solver's network matters only to a response main() hands to it.
EnvsFor(resp) ==
    IF /\ resp.exc = ""
       /\ ~IsRateLimited(resp.status, resp.text)
       /\ resp.text.len < REAL_CONTENT_SIZE
       /\ parse_akamai_interstitial(resp.text).bm_verify # ""
    THEN SolverEnvs ELSE { NoEnv }

\* The answers a page request can get: anything, or the fixed answer of a
\* deterministic server.
Offered(p) ==
    IF server.det THEN { server.answer[p] }
    ELSE UNION { { [resp |-> r, env |-> e] : e \in EnvsFor(r) } : r \in Responses }

----------------------------------------------------------------------------
\* The disk.

\* A progress file, by what json.load and the reads of main() make of it:
\*   json            "object", "array" (valid JSON that is no object),
\*                   "invalid" (no valid JSON), "none" (no file)
\*   last_page_type  "int", or "str" for a last_page that is a JSON string
NoFile == [exists |-> FALSE, json |-> "none", last_page_type |-> "none",
           last_page |-> -1, pages_scraped |-> << >>, all_urls |-> << >>]
Checkpoint(lp, ps, urls) ==
    [exists |-> TRUE, json |-> "object", last_page_type |-> "int",
     last_page |-> lp, pages_scraped |-> ps, all_urls |-> urls]
NoJsonl == [exists |-> FALSE, lines |-> << >>]

\* A file that holds no valid JSON: an empty file, or the beginning of a
\* JSON object (what open(path, 'w') and an unfinished json.dump leave).
Unparseable == [NoFile EXCEPT !.exists = TRUE, !.json = "invalid"]

\* A file that holds valid JSON that is not an object, such as [].
NotARecord == [NoFile EXCEPT !.exists = TRUE, !.json = "array"]

\* A file that holds an object whose last_page is a string, such as "0".
StrLastPage(ps, urls) ==
    [Checkpoint(-1, ps, urls) EXCEPT !.last_page_type = "str"]

\* The legacy <name>.json: progress.last_page, pages[].page_number, all_urls.
NoLegacy == [exists |-> FALSE, last_page |-> -1, pages |-> << >>,
             all_urls |-> << >>]
Legacy(lp, pgs, urls) ==
    [exists |-> TRUE, last_page |-> lp, pages |-> pgs, all_urls |-> urls]

\* Progress files earlier runs of the program leave behind.
InitialCheckpoints ==
    { NoFile,
      Checkpoint(0, << 0 >>, << d1 >>),
      Checkpoint(1, << 1 >>, << d2, d1 >>),
      Checkpoint(0, << >>, << >>) }

\* The None load_existing_output returns (exists = FALSE).
NoOutput == [exists |-> FALSE, all_urls |-> << >>, last_page |-> -1,
             last_page_type |-> "none", pages_scraped |-> << >>, pages |-> << >>]

\* load_existing_output(progress_file, legacy_json_file).  json.load raises
\* on a file that is no valid JSON and data.get raises on a value that is
\* no object; both are caught and the legacy file is tried next.
load_existing_output(file, legacy) ==
    IF file.exists /\ file.json = "object"
    THEN [exists |-> TRUE, all_urls |-> file.all_urls,
          last_page |-> file.last_page, last_page_type |-> file.last_page_type,
          pages_scraped |-> file.pages_scraped, pages |-> file.pages_scraped]
    ELSE IF legacy.exists
    THEN [exists |-> TRUE, all_urls |-> legacy.all_urls,
          last_page |-> legacy.last_page, last_page_type |-> "int",
          pages_scraped |-> sorted(legacy.pages), pages |-> legacy.pages]
    ELSE NoOutput

----------------------------------------------------------------------------
\* The command line.

Args(reset, sp, mp, mr) ==
    [searchterm |-> "oswald", reset |-> reset, start_page |-> sp,
     max_pages |-> mp, max_retries |-> mr]

\* The command line a with another search term.
Searching(term, a) == [a EXCEPT !.searchterm = term]

ArgSets ==
    { Args(reset, sp, mp, mr) :
        reset \in BOOLEAN,
        sp \in { None, Some(0), Some(1) },
        mp \in { None, Some(1), Some(MaxPagesArg) },
        mr \in { 0, 1, MaxRetriesArg } }
    \cup { Searching("timeout", Args(FALSE, None, Some(1), mr)) :
             mr \in { 1, MaxRetriesArg } }

NoArgs == Args(FALSE, None, None, 0)

----------------------------------------------------------------------------
\* History the properties read.

NoRequests == [page |-> -1, count |-> 0, limited |-> 0]
NoLast == [page |-> -1, attempt |-> 0, outcome |-> "none", exc |-> "", status |-> 0,
           text |-> NoBody, env |-> NoEnv, replay |-> NoBody, used |-> NoBody,
           solved |-> FALSE, posted |-> NoPost, page_urls |-> << >>, before |-> 0,
           wait |-> 0, delay |-> 0]

NoSolverOut == [ran |-> FALSE, text |-> NoBody, solved |-> FALSE,
                posted |-> NoPost, replayed |-> FALSE]

\* The environment with both cookies set.
Environ(session_value, ak_bmsc_value) ==
    [COOKIE_SESSION |-> session_value, COOKIE_AK_BMSC |-> ak_bmsc_value]
AllCookies == Environ("s1", "a1")

NoDisk == [progress_file |-> NoFile, jsonl_file |-> NoJsonl]

\* A session object: which one it is (they are numbered as they are made),
\* whether it is open, and the names of the cookies it carries.
Handle(id, open, cookies) == [id |-> id, open |-> open, cookies |-> cookies]
NoHandle == Handle(-1, FALSE, { })
NoRecycle == [after |-> "none", failed |-> "none", replaced |-> NoHandle]
NoTorn == [during |-> "none", previous |-> NoFile, intended |-> NoFile]
NoExit == [ending |-> "none", status |-> -1]

harness_vars == << challenge_html, solver_env, solver_out >>
given_vars == << environ, legacy_json_file >>
watch_vars == << prior, torn, first_exit >>
transport_vars == << use_httpcloak, session, used, recycled >>
resume_vars == << phase, snap, first_final >>
disk_vars == << progress_file, jsonl_file, debug_files >>
memory_vars == << pages_scraped, pages, all_urls, consecutive_empty >>
run_vars == << args, existing_output, start_page >>

----------------------------------------------------------------------------
\* main(), up to the crawl loop: load or reset, pick the start page.

\* get_cookies_from_env(): the cookies whose variable has a non-empty value.
CookieVars == { "COOKIE_SESSION", "COOKIE_AK_BMSC" }
CookieName(v) == IF v = "COOKIE_SESSION" THEN "_session_" ELSE "ak_bmsc"
get_cookies_from_env(env) == { CookieName(v) : v \in { w \in CookieVars : env[w] # "" } }

\* args.start_page if args.start_page is not None else 0
FreshStartPage(a) == IF ~IsNone(a.start_page) THEN Val(a.start_page) ELSE 0

\* if args.reset: nothing is loaded.
Fresh(a) ==
    [existing_output |-> NoOutput, raised |-> FALSE,
     start_page |-> FreshStartPage(a), pages_scraped |-> << >>]

\* Variant of ResumePage that starts again at the last page.
ResumePageAtLast(last_page) == last_page

\* progress.get('last_page', 0) + 1
ResumePage(last_page) == last_page + 1

\* else: load; with a loaded progress, resume after its last_page unless a
\* start page is given.  A last_page that is no number makes the + 1 raise
\* TypeError, which nothing catches.
Resume(a, file, legacy) ==
    LET existing == load_existing_output(file, legacy)
    IN  IF existing.exists
        THEN [existing_output |-> existing,
              raised |-> IsNone(a.start_page) /\ existing.last_page_type # "int",
              start_page |-> IF ~IsNone(a.start_page) THEN Val(a.start_page)
                             ELSE ResumePage(existing.last_page),
              pages_scraped |-> existing.pages_scraped]
        ELSE [existing_output |-> existing, raised |-> FALSE,
              start_page |-> FreshStartPage(a), pages_scraped |-> << >>]

\* Variant of LoadProgress that resumes also under --reset.
LoadProgressNoReset(a, file, legacy) == Resume(a, file, legacy)

\* Load or initialize progress from the progress file (or the legacy .json).
LoadProgress(a, file, legacy) ==
    IF a.reset THEN Fresh(a) ELSE Resume(a, file, legacy)

\* Variant of all_results that always starts empty.
all_results_empty(a, existing) == [pages |-> << >>, all_urls |-> << >>]

\* Initialize or load existing results: if existing_output and not args.reset
all_results(a, existing) ==
    IF existing.exists /\ ~a.reset
    THEN [pages |-> existing.pages, all_urls |-> existing.all_urls]
    ELSE [pages |-> << >>, all_urls |-> << >>]

\* The disk as a run finds it.
Disk(pf, jf) == [progress_file |-> pf, jsonl_file |-> jf]

\* main() up to the while loop.  The TypeError ends the process with a
\* traceback; without any cookie main() returns before the loop.
StartRun(a) ==
    /\ pc = "idle"
    /\ LET lp == LoadProgress(a, progress_file, legacy_json_file)
           results == all_results(a, lp.existing_output)
       IN  /\ args' = a
           /\ existing_output' = lp.existing_output
           /\ start_page' = lp.start_page
           /\ page' = lp.start_page
           /\ pages_scraped' = lp.pages_scraped
           /\ pages' = results.pages
           /\ all_urls' = results.all_urls
           /\ pc' = IF lp.raised THEN "aborted"
                    ELSE IF get_cookies_from_env(environ) = { } THEN "refused"
                    ELSE "loop"
    /\ writes' = 0
    /\ consecutive_empty' = 0
    /\ attempt' = 0
    /\ request_failed' = FALSE
    /\ stop_search' = FALSE
    /\ requests' = NoRequests
    /\ last' = NoLast
    /\ UNCHANGED << disk_vars, server, resume_vars, harness_vars, given_vars, transport_vars,
                    watch_vars >>

\* Variant of MaxPagesReached that lets the limit itself through.
MaxPagesPassed ==
    /\ ~IsNone(args.max_pages)
    /\ Val(args.max_pages) # 0
    /\ page > start_page + Val(args.max_pages)

\* if args.max_pages and page >= (start_page + args.max_pages)
MaxPagesReached ==
    /\ ~IsNone(args.max_pages)
    /\ Val(args.max_pages) # 0
    /\ page >= start_page + Val(args.max_pages)

\* Variant of AlreadyScraped that skips nothing.
NeverScraped(p, ps) == FALSE

\* if page in pages_scraped
AlreadyScraped(p, ps) == p \in Range(ps)

\* while True: the max-pages check ends the loop.
StopAtMaxPages ==
    /\ pc = "loop"
    /\ MaxPagesReached
    /\ pc' = "final"
    /\ UNCHANGED << disk_vars, run_vars, writes, page, memory_vars, attempt,
                    request_failed, stop_search, requests, last, server,
                    resume_vars, harness_vars, given_vars, transport_vars, watch_vars >>

\* while True: a page already scraped is skipped.
SkipPage ==
    /\ pc = "loop"
    /\ ~MaxPagesReached
    /\ AlreadyScraped(page, pages_scraped)
    /\ page' = page + 1
    /\ UNCHANGED << disk_vars, run_vars, writes, pc, memory_vars, attempt,
                    request_failed, stop_search, requests, last, server,
                    resume_vars, harness_vars, given_vars, transport_vars, watch_vars >>

\* while True: a page to fetch; the for loop over the attempts starts.
BeginPage ==
    /\ pc = "loop"
    /\ ~MaxPagesReached
    /\ ~AlreadyScraped(page, pages_scraped)
    /\ page <= MaxPage
    /\ request_failed' = TRUE
    /\ stop_search' = FALSE
    /\ attempt' = 0
    /\ requests' = [page |-> page, count |-> 0, limited |-> 0]
    /\ pc' = "for"
    /\ UNCHANGED << disk_vars, run_vars, writes, page, memory_vars, last,
                    server, resume_vars, harness_vars, given_vars, transport_vars, watch_vars >>

\* Variant of AfterFor that ends the loop on stop_search alone.
AfterForStopOnly(rf, ss) == IF ss THEN "final" ELSE "loop"

\* if request_failed or stop_search: break
AfterFor(rf, ss) == IF rf \/ ss THEN "final" ELSE "loop"

\* for attempt in range(args.max_retries): session.get(url, ...)
SendRequest ==
    /\ pc = "for"
    /\ attempt < args.max_retries
    /\ requests' = [requests EXCEPT !.count = @ + 1]
    /\ pc' = "inflight"
    /\ UNCHANGED << disk_vars, run_vars, writes, page, memory_vars, attempt,
                    request_failed, stop_search, last, server,
                    resume_vars, harness_vars, given_vars, transport_vars, watch_vars >>

\* The for loop ran out of attempts: request_failed is still True.
RetriesExhausted ==
    /\ pc = "for"
    /\ attempt >= args.max_retries
    /\ pc' = AfterFor(request_failed, stop_search)
    /\ UNCHANGED << disk_vars, run_vars, writes, page, memory_vars, attempt,
                    request_failed, stop_search, requests, last, server,
                    resume_vars, harness_vars, given_vars, transport_vars, watch_vars >>

----------------------------------------------------------------------------
\* One attempt: the body of the try block, from the response to the break
\* or continue that ends it.  The branches work on a record of the values an
\* attempt can change; ctl is how the attempt leaves the for loop.

Cur ==
    [ctl |-> "break", outcome |-> "none",
     url |-> get_search_url(args.searchterm, page),
     request_failed |-> request_failed, stop_search |-> stop_search,
     page |-> page, pages_scraped |-> pages_scraped, pages |-> pages,
     all_urls |-> all_urls, consecutive_empty |-> consecutive_empty,
     progress_file |-> progress_file, jsonl_file |-> jsonl_file,
     debug_files |-> debug_files, wait |-> 0, delay |-> 0,
     used |-> NoBody, solved |-> FALSE, posted |-> NoPost, page_urls |-> << >>]

\* with open(debug_file, 'w') as f: f.write(response_text)
WriteDebug(files, kind, p, text) ==
    { f \in files : f.name # << kind, p >> }
    \cup { [name |-> << kind, p >>, text |-> text] }

\* Redirect: cookies expired; stop the search.
Redirected(c) ==
    [c EXCEPT !.outcome = "Redirected", !.request_failed = FALSE,
              !.stop_search = TRUE]

\* Variant of RateLimited that continues without the sleep.
RateLimitedNoSleep(c) ==
    [c EXCEPT !.outcome = "RateLimited", !.ctl = "continue"]

\* 503 / unavailable: time.sleep(args.unavailable_wait); continue
RateLimited(c) ==
    [c EXCEPT !.outcome = "RateLimited", !.wait = 1, !.ctl = "continue"]

\* except Exception as e: a timeout sleeps and continues, anything else
\* breaks with request_failed still set.
OnException(c, err_msg) ==
    IF IsTimeoutMsg(err_msg)
    THEN [c EXCEPT !.outcome = "TimedOut", !.wait = 1, !.ctl = "continue"]
    ELSE [c EXCEPT !.outcome = "FatalError"]

\* response.raise_for_status() raised: str(e) is the status line followed
\* by " for url: " and the URL, and the handler searches all of it.
OnHttpError(c, status) ==
    IF UrlHoldsTimeout(c.url)
    THEN [c EXCEPT !.outcome = "TimedOut", !.wait = 1, !.ctl = "continue"]
    ELSE OnException(c, HttpErrorMsg(status))

\* Variant of StopWithDebug that writes no debug file.
StopWithoutDebug(c, what, response_text) ==
    [c EXCEPT !.outcome = what, !.used = response_text,
              !.request_failed = FALSE, !.stop_search = TRUE]

\* The solver failed, or the response is under the real-content size: the
\* text is saved for inspection and the search stops.
StopWithDebug(c, what, response_text) ==
    [c EXCEPT !.outcome = what, !.used = response_text,
              !.debug_files = WriteDebug(c.debug_files, "page", c.page, response_text),
              !.request_failed = FALSE, !.stop_search = TRUE]

\* Variant of progress_data that is built before the page is appended.
progress_data_before(last_page, ps, urls) ==
    Checkpoint(last_page, sorted(SubSeq(ps, 1, Len(ps) - 1)), urls)

\* progress_data = {'last_page': ..., 'pages_scraped': sorted(pages_scraped),
\* 'all_urls': ...}, as json.dump writes it to the progress file.
progress_data(last_page, ps, urls) == Checkpoint(last_page, sorted(ps), urls)

\* Variant of Store that moves on without the delay sleep.
StoreNoDelay(c, response_text, page_urls) ==
    LET ps == Append(c.pages_scraped, c.page)
        urls == MergeUrls(c.all_urls, page_urls)
        saved == [c EXCEPT !.pages = Append(c.pages, c.page),
                           !.pages_scraped = ps,
                           !.all_urls = urls,
                           !.jsonl_file = write_jsonl(urls),
                           !.progress_file = progress_data(c.page, ps, urls)]
        has_next == check_for_next_page(response_text)
    IN  IF c.page \in Range(c.pages)
        THEN [c EXCEPT !.outcome = "DuplicatePage", !.page = c.page + 1,
                       !.request_failed = FALSE]
        ELSE IF ~has_next /\ Len(page_urls) # 0
        THEN [saved EXCEPT !.outcome = "EndOfResults", !.request_failed = FALSE,
                           !.stop_search = TRUE]
        ELSE [saved EXCEPT !.outcome = "Committed", !.page = c.page + 1,
                           !.request_failed = FALSE]

\* Store results, add to all_urls, update progress, save, look for a next
\* page, move on.
Store(c, response_text, page_urls) ==
    LET ps == Append(c.pages_scraped, c.page)
        urls == MergeUrls(c.all_urls, page_urls)
        saved == [c EXCEPT !.pages = Append(c.pages, c.page),
                           !.pages_scraped = ps,
                           !.all_urls = urls,
                           !.jsonl_file = write_jsonl(urls),
                           !.progress_file = progress_data(c.page, ps, urls)]
        has_next == check_for_next_page(response_text)
    IN  IF c.page \in Range(c.pages)
        THEN [c EXCEPT !.outcome = "DuplicatePage", !.page = c.page + 1,
                       !.request_failed = FALSE]
        ELSE IF ~has_next /\ Len(page_urls) # 0
        THEN [saved EXCEPT !.outcome = "EndOfResults", !.request_failed = FALSE,
                           !.stop_search = TRUE]
        ELSE [saved EXCEPT !.outcome = "Committed", !.page = c.page + 1,
                           !.delay = 1, !.request_failed = FALSE]

\* Variant of EmptyLimitReached that stops one page later.
EmptyLimitExceeded(n) == n > EMPTY_STOP

\* if consecutive_empty >= 2
EmptyLimitReached(n) == n >= EMPTY_STOP

\* Variant of Extract that moves past an empty page without storing it.
ExtractDropsEmpty(c0, response_text) ==
    LET page_urls == extract_document_urls(response_text)
        c == [c0 EXCEPT !.used = response_text, !.page_urls = page_urls]
        empty == [c EXCEPT !.consecutive_empty = c.consecutive_empty + 1]
    IN  IF Len(page_urls) = 0
        THEN IF EmptyLimitReached(empty.consecutive_empty)
             THEN [empty EXCEPT !.outcome = "EmptyStop", !.request_failed = FALSE,
                                !.stop_search = TRUE]
             ELSE [empty EXCEPT !.outcome = "Committed", !.page = c.page + 1,
                                !.delay = 1, !.request_failed = FALSE]
        ELSE Store([c EXCEPT !.consecutive_empty = 0], response_text, page_urls)

\* Extract document URLs; count empty pages; two in a row stop the search.
Extract(c0, response_text) ==
    LET page_urls == extract_document_urls(response_text)
        c == [c0 EXCEPT !.used = response_text, !.page_urls = page_urls]
        empty == [c EXCEPT
                    !.consecutive_empty = c.consecutive_empty + 1,
                    !.debug_files =
                        IF response_text.len > EMPTY_DEBUG_SIZE
                        THEN WriteDebug(c.debug_files, "empty", c.page, response_text)
                        ELSE c.debug_files]
    IN  IF Len(page_urls) = 0
        THEN IF EmptyLimitReached(empty.consecutive_empty)
             THEN [empty EXCEPT !.outcome = "EmptyStop", !.request_failed = FALSE,
                                !.stop_search = TRUE]
             ELSE Store(empty, response_text, page_urls)
        ELSE Store([c EXCEPT !.consecutive_empty = 0], response_text, page_urls)

\* if len(response_text) < 10000
IsTooSmall(text) == text.len < REAL_CONTENT_SIZE

\* if len(response_text) < 10000 and parse_akamai_interstitial(response_text)[0]
IsChallenge(text) ==
    text.len < REAL_CONTENT_SIZE /\ parse_akamai_interstitial(text).bm_verify # ""

\* Variant of ReplayedText that drops the text the solver returned.
ChallengeText(text, s) == text

\* response_text, solved = solve_akamai_interstitial(...)
ReplayedText(text, s) == s.text

\* response_text = response.text, and on: solver, size check, extraction.
ProcessText(c, text, env) ==
    LET s == solve_akamai_interstitial(text, env)
        response_text == ReplayedText(text, s)
    IN  IF IsChallenge(text)
        THEN IF s.raised # ""
             THEN OnException([c EXCEPT !.posted = s.posted], s.raised)
             ELSE IF s.solved
             THEN IF IsTooSmall(response_text)
                  THEN StopWithDebug([c EXCEPT !.posted = s.posted, !.solved = TRUE],
                                     "TooSmall", response_text)
                  ELSE Extract([c EXCEPT !.posted = s.posted, !.solved = TRUE],
                               response_text)
             ELSE StopWithDebug([c EXCEPT !.posted = s.posted],
                                "ChallengeUnsolved", response_text)
        ELSE IF IsTooSmall(text)
        THEN StopWithDebug(c, "TooSmall", text)
        ELSE Extract(c, text)

\* The outcomes that saved the page.
Stored == { "Committed", "EndOfResults" }

\* The try block on one response.
Classify(c, resp, env) ==
    IF resp.exc # "" THEN OnException(c, resp.exc)
    ELSE IF IsRedirectStatus(resp.status) THEN Redirected(c)
    ELSE IF IsRateLimited(resp.status, resp.text) THEN RateLimited(c)
    ELSE IF RaisesForStatus(resp.status)
    THEN OnHttpError(c, resp.status)
    ELSE ProcessText(c, resp.text, env)

\* The response of the page request arrives and the attempt runs to its
\* break or continue; after a break the while loop goes on or ends.
Respond ==
    /\ pc = "inflight"
    /\ \E o \in Offered(page) :
         LET r == Classify(Cur, o.resp, o.env)
         IN  /\ request_failed' = r.request_failed
             /\ stop_search' = r.stop_search
             /\ page' = r.page
             /\ pages_scraped' = r.pages_scraped
             /\ pages' = r.pages
             /\ all_urls' = r.all_urls
             /\ consecutive_empty' = r.consecutive_empty
             /\ progress_file' = r.progress_file
             /\ jsonl_file' = r.jsonl_file
             /\ debug_files' = r.debug_files
             /\ writes' = IF r.outcome \in Stored THEN writes + 1 ELSE writes
             /\ requests' = [requests EXCEPT
                                !.limited = IF r.outcome = "RateLimited"
                                            THEN @ + 1 ELSE @]
             /\ attempt' = IF r.ctl = "continue" THEN attempt + 1 ELSE attempt
             /\ pc' = IF r.ctl = "continue" THEN "for"
                      ELSE AfterFor(r.request_failed, r.stop_search)
             /\ last' = [page |-> page, attempt |-> attempt, outcome |-> r.outcome,
                         exc |-> o.resp.exc,
                         status |-> o.resp.status, text |-> o.resp.text,
                         env |-> o.env, replay |-> o.env.text,
                         used |-> r.used, solved |-> r.solved, posted |-> r.posted,
                         page_urls |-> r.page_urls, before |-> consecutive_empty,
                         wait |-> r.wait, delay |-> r.delay]
    /\ UNCHANGED << run_vars, server, resume_vars, harness_vars, given_vars, transport_vars, watch_vars >>

\* Variant of FinalLastPage that always takes the page before the cursor.
FinalLastPageFromCursor == page - 1

\* Final save: last_page = max(pages_scraped) if pages_scraped else (page - 1)
FinalLastPage == IF pages_scraped # << >> THEN max(pages_scraped) ELSE page - 1

FinalSave ==
    /\ pc = "final"
    /\ jsonl_file' = write_jsonl(all_urls)
    /\ progress_file' = progress_data(FinalLastPage, pages_scraped, all_urls)
    /\ writes' = writes + 1
    /\ pc' = "done"
    /\ UNCHANGED << debug_files, run_vars, page, memory_vars, attempt,
                    request_failed, stop_search, requests, last, server,
                    resume_vars, harness_vars, given_vars, transport_vars, watch_vars >>

----------------------------------------------------------------------------
\* One run of the crawler against a server that may answer anything, from
\* any progress file an earlier run left.

AnyServer == [det |-> FALSE, answer |-> [p \in Pages |-> [resp |-> Exc(""), env |-> NoEnv]]]

Init ==
    /\ progress_file \in InitialCheckpoints
    /\ jsonl_file = (IF progress_file.exists THEN write_jsonl(progress_file.all_urls)
                     ELSE NoJsonl)
    /\ debug_files = { }
    /\ args = NoArgs
    /\ pc = "idle"
    /\ existing_output = NoOutput
    /\ writes = 0
    /\ start_page = 0
    /\ page = 0
    /\ pages_scraped = << >>
    /\ pages = << >>
    /\ all_urls = << >>
    /\ consecutive_empty = 0
    /\ attempt = 0
    /\ request_failed = FALSE
    /\ stop_search = FALSE
    /\ requests = NoRequests
    /\ last = NoLast
    /\ server = AnyServer
    /\ phase = "first"
    /\ snap = NoFile
    /\ first_final = NoFile
    /\ challenge_html = NoBody
    /\ solver_env = NoEnv
    /\ solver_out = NoSolverOut
    /\ environ = AllCookies
    /\ legacy_json_file = NoLegacy
    /\ prior = NoDisk
    /\ torn = NoTorn
    /\ first_exit = NoExit
    /\ use_httpcloak = FALSE
    /\ session = NoHandle
    /\ used = NoHandle
    /\ recycled = NoRecycle

Next ==
    \/ \E a \in ArgSets : StartRun(a)
    \/ StopAtMaxPages
    \/ SkipPage
    \/ BeginPage
    \/ SendRequest
    \/ RetriesExhausted
    \/ Respond
    \/ FinalSave

Spec == Init /\ [][Next]_vars

----------------------------------------------------------------------------
\* The resume experiment: a one-pass run from no progress file against a
\* deterministic server, then a second run, with the same command line, from
\* the progress file as it was right after one of the first run's commits.

DetAnswers ==
    { [resp |-> Http(200, Plain(REAL_CONTENT_SIZE, << d1 >>, TRUE)), env |-> NoEnv],
      [resp |-> Http(200, Plain(REAL_CONTENT_SIZE, << d1b, d2 >>, TRUE)), env |-> NoEnv],
      [resp |-> Http(200, Plain(REAL_CONTENT_SIZE, << d2, d2 >>, FALSE)), env |-> NoEnv],
      [resp |-> Http(200, Plain(REAL_CONTENT_SIZE, << >>, TRUE)), env |-> NoEnv],
      [resp |-> Http(200, ChallengeBody),
       env |-> SolverEnv(FALSE, FALSE, Plain(REAL_CONTENT_SIZE + 1, << d2 >>, TRUE))],
      [resp |-> Http(503, NoBody), env |-> NoEnv],
      [resp |-> Http(302, NoBody), env |-> NoEnv] }

ResumeArgs == { Args(FALSE, None, None, mr) : mr \in { 1, MaxRetriesArg } }

InitResume ==
    /\ progress_file = NoFile
    /\ jsonl_file = NoJsonl
    /\ debug_files = { }
    /\ args \in ResumeArgs
    /\ pc = "idle"
    /\ existing_output = NoOutput
    /\ writes = 0
    /\ start_page = 0
    /\ page = 0
    /\ pages_scraped = << >>
    /\ pages = << >>
    /\ all_urls = << >>
    /\ consecutive_empty = 0
    /\ attempt = 0
    /\ request_failed = FALSE
    /\ stop_search = FALSE
    /\ requests = NoRequests
    /\ last = NoLast
    /\ server \in { [det |-> TRUE, answer |-> f] : f \in [Pages -> DetAnswers] }
    /\ phase = "first"
    /\ snap = NoFile
    /\ first_final = NoFile
    /\ challenge_html = NoBody
    /\ solver_env = NoEnv
    /\ solver_out = NoSolverOut
    /\ environ = AllCookies
    /\ legacy_json_file = NoLegacy
    /\ prior = NoDisk
    /\ torn = NoTorn
    /\ first_exit = NoExit
    /\ use_httpcloak = FALSE
    /\ session = NoHandle
    /\ used = NoHandle
    /\ recycled = NoRecycle

\* The observer keeps the progress file as a commit of the first run left it
\* (the file does not change between a commit and the final save).
KeepCheckpoint ==
    /\ phase = "first"
    /\ pc \in { "loop", "final" }
    /\ last.outcome \in Stored
    /\ ~snap.exists
    /\ snap' = progress_file
    /\ UNCHANGED << disk_vars, run_vars, writes, pc, page, memory_vars, attempt,
                    request_failed, stop_search, requests, last, server, phase,
                    first_final, harness_vars, given_vars, transport_vars, watch_vars >>

\* The first run is over: its final checkpoint is noted, the kept checkpoint
\* is put back on disk, and the program is started again.
Rerun ==
    /\ phase = "first"
    /\ pc = "done"
    /\ snap.exists
    /\ first_final' = progress_file
    /\ progress_file' = snap
    /\ jsonl_file' = write_jsonl(snap.all_urls)
    /\ phase' = "resumed"
    /\ pc' = "idle"
    /\ UNCHANGED << debug_files, run_vars, writes, page, memory_vars, attempt,
                    request_failed, stop_search, requests, last, server, snap,
                    harness_vars, given_vars, transport_vars, watch_vars >>

\* No --max-pages is given and a resumed run starts past every scraped page,
\* so neither the max-pages stop nor the skip can happen here.
NextResume ==
    \/ StartRun(args)
    \/ BeginPage
    \/ SendRequest
    \/ RetriesExhausted
    \/ Respond
    \/ FinalSave
    \/ KeepCheckpoint
    \/ Rerun

SpecResume == InitResume /\ [][NextResume]_vars

----------------------------------------------------------------------------
\* The solver on its own: solve_akamai_interstitial applied to any body,
\* under any behaviour of the network.

HarnessSeeds == { << >>, << 0 >>, << 0, 0, 7 >>, << 1, 2, 4, 4, 8, 3, 8, 0, 5, 3 >> }

HarnessBodies ==
    { Body(l, "", sec, bmw, tok, seed, << >>, FALSE) :
        l \in { 500, REAL_CONTENT_SIZE }, sec \in BOOLEAN, bmw \in BOOLEAN,
        tok \in { "", "tokA" }, seed \in HarnessSeeds }

InitSolver ==
    /\ challenge_html \in HarnessBodies
    /\ solver_env \in SolverEnvs
    /\ solver_out = NoSolverOut
    /\ environ = AllCookies
    /\ legacy_json_file = NoLegacy
    /\ prior = NoDisk
    /\ torn = NoTorn
    /\ first_exit = NoExit
    /\ use_httpcloak = FALSE
    /\ session = NoHandle
    /\ used = NoHandle
    /\ recycled = NoRecycle
    /\ progress_file = NoFile
    /\ jsonl_file = NoJsonl
    /\ debug_files = { }
    /\ args = NoArgs
    /\ pc = "solver"
    /\ existing_output = NoOutput
    /\ writes = 0
    /\ start_page = 0
    /\ page = 0
    /\ pages_scraped = << >>
    /\ pages = << >>
    /\ all_urls = << >>
    /\ consecutive_empty = 0
    /\ attempt = 0
    /\ request_failed = FALSE
    /\ stop_search = FALSE
    /\ requests = NoRequests
    /\ last = NoLast
    /\ server = AnyServer
    /\ phase = "first"
    /\ snap = NoFile
    /\ first_final = NoFile

Solve ==
    /\ pc = "solver"
    /\ ~solver_out.ran
    /\ LET s == solve_akamai_interstitial(challenge_html, solver_env)
       IN  solver_out' = [ran |-> TRUE, text |-> s.text, solved |-> s.solved,
                          posted |-> s.posted, replayed |-> s.replayed]
    /\ UNCHANGED << disk_vars, run_vars, writes, pc, page, memory_vars, attempt,
                    request_failed, stop_search, requests, last, server,
                    resume_vars, challenge_html, solver_env, given_vars, transport_vars,
                    watch_vars >>

SpecSolver == InitSolver /\ [][Solve]_vars

----------------------------------------------------------------------------
\* Two invocations of the program on one disk: in any environment, on any
\* progress file (also one the program did not write), with or without a
\* legacy file.  The first invocation may be killed in the middle of a write;
\* the second shows what the disk it left is worth.

\* How the process ended, as its exit status: main() returning (after the
\* final save, or at the cookies check) ends the interpreter with 0, an
\* uncaught exception with 1; a killed process is reported by its signal.
exit_status(at) ==
    CASE at = "done" -> 0
      [] at = "refused" -> 0
      [] at = "aborted" -> 1
      [] OTHER -> -9

Ended == pc \in { "done", "refused", "aborted", "crashed" }

RunAnswers ==
    DetAnswers \cup { [resp |-> Http(404, NoBody), env |-> NoEnv] }

\* Servers that answer every page alike, one with two pages of results, and
\* one with a single page of results that redirects every later page.
RunServers ==
    { [det |-> TRUE, answer |-> [p \in Pages |-> a]] : a \in RunAnswers }
    \cup { [det |-> TRUE,
            answer |-> [p \in Pages |->
                IF p = 0
                THEN [resp |-> Http(200, Plain(REAL_CONTENT_SIZE, << d1 >>, TRUE)),
                      env |-> NoEnv]
                ELSE [resp |-> Http(200, Plain(REAL_CONTENT_SIZE, << d2, d2 >>, FALSE)),
                      env |-> NoEnv]]],
           [det |-> TRUE,
            answer |-> [p \in Pages |->
                IF p = 0
                THEN [resp |-> Http(200, Plain(REAL_CONTENT_SIZE, << d2, d2 >>, FALSE)),
                      env |-> NoEnv]
                ELSE [resp |-> Http(302, NoBody), env |-> NoEnv]]] }

RunArgs == { Args(reset, sp, None, 1) : reset \in BOOLEAN, sp \in { None, Some(1) } }

RunFiles ==
    { NoFile, Checkpoint(0, << 0 >>, << d1 >>), Unparseable, NotARecord,
      StrLastPage(<< 0 >>, << d1 >>) }

RunLegacyFiles == { NoLegacy, Legacy(1, << 1, 0 >>, << d2, d1 >>) }

Environs == { Environ(s, a) : s \in { "", "s1" }, a \in { "", "a1" } }

InitRuns ==
    /\ progress_file \in RunFiles
    /\ jsonl_file = (IF progress_file.exists THEN write_jsonl(progress_file.all_urls)
                     ELSE NoJsonl)
    /\ debug_files = { }
    /\ args = NoArgs
    /\ pc = "idle"
    /\ existing_output = NoOutput
    /\ writes = 0
    /\ start_page = 0
    /\ page = 0
    /\ pages_scraped = << >>
    /\ pages = << >>
    /\ all_urls = << >>
    /\ consecutive_empty = 0
    /\ attempt = 0
    /\ request_failed = FALSE
    /\ stop_search = FALSE
    /\ requests = NoRequests
    /\ last = NoLast
    /\ server \in RunServers
    /\ phase = "first"
    /\ snap = NoFile
    /\ first_final = NoFile
    /\ challenge_html = NoBody
    /\ solver_env = NoEnv
    /\ solver_out = NoSolverOut
    /\ environ \in Environs
    /\ legacy_json_file \in RunLegacyFiles
    /\ prior = Disk(progress_file, jsonl_file)
    /\ torn = NoTorn
    /\ first_exit = NoExit
    /\ use_httpcloak = FALSE
    /\ session = NoHandle
    /\ used = NoHandle
    /\ recycled = NoRecycle

\* write_jsonl(...) and then open(progress_file, 'w') with json.dump(...),
\* cut short: the item list holds the lines written so far and the progress
\* file is as before, or the item list is written and the progress file,
\* truncated by open, holds the beginning of the new JSON text.
TornWrites(pf_old, pf_new, jf_new) ==
    { Disk(pf_old, [exists |-> TRUE, lines |-> SubSeq(jf_new.lines, 1, k)]) :
        k \in 0 .. Len(jf_new.lines) }
    \cup { Disk(Unparseable, jf_new) }

\* The process is killed while a page's commit is being written.
CrashInCommit ==
    /\ pc = "inflight"
    /\ phase = "first"
    /\ \E o \in Offered(page) :
         LET r == Classify(Cur, o.resp, o.env)
         IN  /\ r.outcome \in Stored
             /\ \E d \in TornWrites(progress_file, r.progress_file, r.jsonl_file) :
                  /\ progress_file' = d.progress_file
                  /\ jsonl_file' = d.jsonl_file
             /\ torn' = [during |-> "commit", previous |-> progress_file,
                         intended |-> r.progress_file]
    /\ pc' = "crashed"
    /\ UNCHANGED << debug_files, run_vars, writes, page, memory_vars, attempt,
                    request_failed, stop_search, requests, last, server,
                    resume_vars, harness_vars, given_vars, transport_vars, prior, first_exit >>

\* The process is killed while the final save is being written.
CrashInFinalSave ==
    /\ pc = "final"
    /\ phase = "first"
    /\ LET new == progress_data(FinalLastPage, pages_scraped, all_urls)
       IN  /\ \E d \in TornWrites(progress_file, new, write_jsonl(all_urls)) :
                /\ progress_file' = d.progress_file
                /\ jsonl_file' = d.jsonl_file
           /\ torn' = [during |-> "final", previous |-> progress_file,
                       intended |-> new]
    /\ pc' = "crashed"
    /\ UNCHANGED << debug_files, run_vars, writes, page, memory_vars, attempt,
                    request_failed, stop_search, requests, last, server,
                    resume_vars, harness_vars, given_vars, transport_vars, prior, first_exit >>

\* The classes of ending the exit status is to tell apart.
Ending ==
    CASE pc = "refused" -> "input_error"
      [] pc = "done" /\ last.outcome = "EndOfResults" -> "natural_end"
      [] pc = "done" /\ last.outcome \in { "Redirected", "ChallengeUnsolved",
                                           "TooSmall", "RateLimited", "TimedOut",
                                           "FatalError" } -> "stopped_early"
      [] OTHER -> "other"

\* The operator notes how the first invocation ended and starts the program
\* again on the disk it left.
RunAgain ==
    /\ phase = "first"
    /\ Ended
    /\ first_exit' = [ending |-> Ending, status |-> exit_status(pc)]
    /\ prior' = Disk(progress_file, jsonl_file)
    /\ phase' = "again"
    /\ pc' = "idle"
    /\ UNCHANGED << disk_vars, run_vars, writes, page, memory_vars, attempt,
                    request_failed, stop_search, requests, last, server, snap,
                    first_final, harness_vars, given_vars, transport_vars, torn >>

\* No --max-pages is given here, so the max-pages stop cannot happen.
NextRuns ==
    \/ \E a \in RunArgs : StartRun(a)
    \/ SkipPage
    \/ BeginPage
    \/ SendRequest
    \/ RetriesExhausted
    \/ Respond
    \/ FinalSave
    \/ CrashInCommit
    \/ CrashInFinalSave
    \/ RunAgain

SpecRuns == InitRuns /\ [][NextRuns]_vars

----------------------------------------------------------------------------
\* The session of a run: made at startup, used by every request, and with
\* httpcloak refreshed after every committed page and after every timeout.
\* What the page requests answer is left open here; only the order of
\* requests and refreshes is kept.

\* Most sessions one run makes in the model.
MaxSessions == 3

\* Where a refresh can fail: at none of its calls, or at one of them.
RefreshFailures == { "none", "get_cookies", "close", "new", "set_cookie" }

\* The session the variable names after a refresh of s that failed at f:
\*     saved = session.get_cookies()
\*     session.close()
\*     session = HTTPCloakSession(...)
\*     for name, value in saved.items(): session.set_cookie(name, value)
\* in a try block whose except clause only prints.  A close() that raises
\* has closed the handle or has not; a set_cookie() that raises leaves the
\* new session with the cookies set before it.
Refresh(s, f) ==
    CASE f = "get_cookies" -> { s }
      [] f = "close" -> { s, [s EXCEPT !.open = FALSE] }
      [] f = "new" -> { [s EXCEPT !.open = FALSE] }
      [] f = "set_cookie" ->
           { Handle(s.id + 1, TRUE, c) : c \in (SUBSET s.cookies) \ { s.cookies } }
      [] OTHER -> { Handle(s.id + 1, TRUE, s.cookies) }

InitSession ==
    /\ use_httpcloak \in BOOLEAN
    /\ environ \in { e \in Environs : get_cookies_from_env(e) # { } }
    /\ session = Handle(0, TRUE, get_cookies_from_env(environ))
    /\ used = NoHandle
    /\ recycled = NoRecycle
    /\ pc = "ready"
    /\ challenge_html = NoBody
    /\ solver_env = NoEnv
    /\ solver_out = NoSolverOut
    /\ legacy_json_file = NoLegacy
    /\ prior = NoDisk
    /\ torn = NoTorn
    /\ first_exit = NoExit
    /\ progress_file = NoFile
    /\ jsonl_file = NoJsonl
    /\ debug_files = { }
    /\ args = NoArgs
    /\ existing_output = NoOutput
    /\ writes = 0
    /\ start_page = 0
    /\ page = 0
    /\ pages_scraped = << >>
    /\ pages = << >>
    /\ all_urls = << >>
    /\ consecutive_empty = 0
    /\ attempt = 0
    /\ request_failed = FALSE
    /\ stop_search = FALSE
    /\ requests = NoRequests
    /\ last = NoLast
    /\ server = AnyServer
    /\ phase = "first"
    /\ snap = NoFile
    /\ first_final = NoFile

session_frame ==
    << disk_vars, run_vars, writes, page, memory_vars, attempt, request_failed,
       stop_search, requests, last, server, resume_vars, harness_vars,
       given_vars, watch_vars, use_httpcloak >>

\* response = session.get(url, headers=headers, timeout=request_timeout)
SessionGet ==
    /\ pc = "ready"
    /\ used' = session
    /\ pc' = "sent"
    /\ UNCHANGED << session_frame, session, recycled >>

\* What the refresh after a committed page or after a timeout leaves:
\* the session and the record of the refresh.  Without httpcloak there is
\* no refresh.
Refreshed(after) ==
    IF use_httpcloak
    THEN UNION { { [session |-> h,
                    recycled |-> [after |-> after, failed |-> f, replaced |-> session]] :
                   h \in Refresh(session, f) } : f \in RefreshFailures }
    ELSE { [session |-> session, recycled |-> recycled] }

\* The page was saved and the run moves to the next page: refresh, sleep.
PageCommitted ==
    /\ pc = "sent"
    /\ session.id < MaxSessions
    /\ \E r \in Refreshed("committed") :
         session' = r.session /\ recycled' = r.recycled
    /\ pc' = "ready"
    /\ UNCHANGED << session_frame, used >>

\* except Exception, with a timeout: sleep, refresh, continue.
PageTimedOut ==
    /\ pc = "sent"
    /\ session.id < MaxSessions
    /\ \E r \in Refreshed("timeout") :
         session' = r.session /\ recycled' = r.recycled
    /\ pc' = "ready"
    /\ UNCHANGED << session_frame, used >>

\* 503 / unavailable: sleep and continue on the same session.
PageRateLimited ==
    /\ pc = "sent"
    /\ pc' = "ready"
    /\ UNCHANGED << session_frame, session, used, recycled >>

\* The loop ends: if USE_HTTPCLOAK: session.close()
RunStops ==
    /\ pc = "sent"
    /\ session' = IF use_httpcloak THEN [session EXCEPT !.open = FALSE] ELSE session
    /\ pc' = "closed"
    /\ UNCHANGED << session_frame, used, recycled >>

NextSession ==
    \/ SessionGet
    \/ PageCommitted
    \/ PageTimedOut
    \/ PageRateLimited
    \/ RunStops

SpecSession == InitSession /\ [][NextSession]_vars

----------------------------------------------------------------------------
\* Properties.

NoDupUrls(urls) ==
    \A i, j \in 1 .. Len(urls) : i # j => urls[i].url # urls[j].url

Urls(items) == { items[i].url : i \in 1 .. Len(items) }

\* C1. Dedup invariant: from an empty checkpoint or one whose items have
\* pairwise distinct URLs, whatever pages are fetched (overlapping earlier
\* pages, repeating a URL within a page), no two records of the item list
\* share a url: in memory, in the persisted checkpoint and in the item list
\* on disk.
C1_DedupInvariant ==
    /\ NoDupUrls(all_urls)
    /\ NoDupUrls(progress_file.all_urls)
    /\ NoDupUrls(jsonl_file.lines)

\* C1 witness: a page that repeats the URL of an earlier record under another
\* title was committed on top of that record.
C1_Witness ==
    /\ last.outcome = "Committed"
    /\ last.page_urls = << d1b, d2 >>
    /\ all_urls = << d1, d2 >>
    /\ progress_file.all_urls = all_urls

\* C2. Resume idempotence: the run resumed from the checkpoint persisted right
\* after a commit of the one-pass run ends with the same item list and the
\* same lastPage as the one-pass run did.
C2_ResumeIdempotence ==
    (phase = "resumed" /\ pc = "done") =>
        /\ progress_file.all_urls = first_final.all_urls
        /\ progress_file.last_page = first_final.last_page

\* C3. No re-fetch of committed pages: when the loop reaches a page that is
\* in pages_scraped it moves to the next page with no request issued and
\* nothing else changed; no request is ever in flight for a scraped page.
C3_NoRefetch ==
    /\ [](pc \in { "for", "inflight" } => page \notin Range(pages_scraped))
    /\ [][ (pc = "loop" /\ ~MaxPagesReached /\ page \in Range(pages_scraped)) =>
             /\ page' = page + 1
             /\ pc' = "loop"
             /\ requests' = requests
             /\ all_urls' = all_urls
             /\ pages_scraped' = pages_scraped
             /\ progress_file' = progress_file
             /\ jsonl_file' = jsonl_file ]_vars

\* C3 witness: the run went past a page of the loaded checkpoint without a
\* single request.
C3_Witness ==
    /\ pc = "loop"
    /\ start_page \in Range(existing_output.pages_scraped)
    /\ page = start_page + 1
    /\ requests = NoRequests
    /\ last = NoLast

\* C4. Monotonic commit: each progress-file write of a run holds every page
\* number of the checkpoint loaded at startup and of the write before it,
\* and its last_page is not below that of the write before it.
C4_MonotonicCommit ==
    [][ writes' = writes + 1 =>
          /\ Range(existing_output.pages_scraped) \subseteq
                 Range(progress_file'.pages_scraped)
          /\ writes >= 1 =>
                /\ Range(progress_file.pages_scraped) \subseteq
                       Range(progress_file'.pages_scraped)
                /\ progress_file.last_page <= progress_file'.last_page ]_vars

\* C4 witness: a run given a start page below the loaded checkpoint's pages
\* committed, skipped the loaded page, committed again and saved at the end.
C4_Witness ==
    /\ pc = "done"
    /\ writes >= 3
    /\ existing_output.pages_scraped = << 1 >>
    /\ start_page = 0
    /\ progress_file.pages_scraped = << 0, 1, 2 >>

\* C5. In every checkpoint the run persists, last_page is the largest page
\* number of pages_scraped, and -1 when pages_scraped is empty.
C5_LastPageIsMax ==
    writes >= 1 =>
        /\ progress_file.pages_scraped # << >> =>
               progress_file.last_page = max(progress_file.pages_scraped)
        /\ progress_file.pages_scraped = << >> => progress_file.last_page = -1

\* C6. Redirect termination: a redirect status ends the run at once.  The
\* redirected request is the last one (one request if it answered the
\* page's first attempt), nothing sleeps, and pages_scraped, the items and
\* the disk are as before the fetch.
C6_RedirectStops ==
    /\ [](last.status \in { 301, 302, 303, 307, 308 } =>
            /\ pc \in { "final", "done" }
            /\ stop_search
            /\ page = last.page
            /\ page \notin Range(pages_scraped)
            /\ requests.page = last.page
            /\ requests.count = last.attempt + 1
            /\ last.attempt = 0 => requests.count = 1
            /\ last.wait = 0 /\ last.delay = 0)
    /\ [][ (pc = "inflight" /\ last'.status \in { 301, 302, 303, 307, 308 }) =>
             /\ pc' = "final"
             /\ pages_scraped' = pages_scraped
             /\ all_urls' = all_urls
             /\ progress_file' = progress_file
             /\ jsonl_file' = jsonl_file
             /\ requests' = requests ]_vars

\* C6 witness: a 307 with a full-size body answered the first request of a
\* page; the run is over after that single request.
C6_Witness ==
    /\ pc = "done"
    /\ last.status = 307
    /\ last.attempt = 0
    /\ requests.count = 1

\* C7. Retry exhaustion: once max_retries attempts of one page were all
\* classified RateLimited, exactly max_retries requests were issued for the
\* page, the page is not in pages_scraped, no further request follows and
\* the run goes to its end.
C7_RetryExhaustion ==
    /\ [](( args.max_retries >= 1 /\ requests.limited = args.max_retries) =>
            /\ requests.count = args.max_retries
            /\ requests.page = page
            /\ page \notin Range(pages_scraped)
            /\ pc \in { "for", "final", "done" }
            /\ ~stop_search)
    /\ [][ (args.max_retries >= 1 /\ requests.limited = args.max_retries) =>
             /\ requests' = requests
             /\ page' = page
             /\ pages_scraped' = pages_scraped
             /\ pc = "for" => pc' = "final" ]_vars

\* C7 witness: two attempts of page 1, both RateLimited, and the run is over.
C7_Witness ==
    /\ pc = "done"
    /\ args.max_retries = MaxRetriesArg
    /\ requests = [page |-> 1, count |-> MaxRetriesArg, limited |-> MaxRetriesArg]
    /\ last.outcome = "RateLimited"

\* The last attempt got real content and went on to extraction.
Extracted == last.outcome \in { "Committed", "EndOfResults", "EmptyStop", "DuplicatePage" }

\* C8. Empty-page tolerance.  A page with real content and zero items that
\* follows no empty page does not stop the search and leaves the counter at
\* 1; a page with items puts the counter back to 0; a second page in a row
\* with zero items stops the run there, uncommitted.
C8_EmptyPageTolerance ==
    /\ (Extracted /\ last.page_urls = << >> /\ last.before = 0) =>
           /\ ~stop_search
           /\ consecutive_empty = 1
           /\ last.page \in Range(pages_scraped)
           /\ page > last.page
    /\ (Extracted /\ last.page_urls # << >>) => consecutive_empty = 0
    /\ (Extracted /\ last.page_urls = << >> /\ last.before = 1) =>
           /\ stop_search
           /\ pc \in { "final", "done" }
           /\ page = last.page
           /\ last.page \notin Range(pages_scraped)

\* C8 witness: in one run an empty page was followed by a page with items,
\* which was committed, and the run goes on.
C8_Witness ==
    /\ last.outcome = "Committed"
    /\ last.before = 1
    /\ last.page_urls # << >>
    /\ consecutive_empty = 0
    /\ pc = "loop"

\* The decimal value of a string of digits, most significant first.
RECURSIVE Pow10(_)
Pow10(n) == IF n = 0 THEN 1 ELSE 10 * Pow10(n - 1)
RECURSIVE DecimalValue(_)
DecimalValue(digits) ==
    IF digits = << >> THEN 0
    ELSE Head(digits) * Pow10(Len(digits) - 1) + DecimalValue(Tail(digits))

\* C9. Challenge payload: for a body with both markers, a token T and a seed
\* S the solver posts T and S + 902645594; with a marker, the token or the
\* seed missing it posts nothing.
C9_ChallengePayload ==
    solver_out.ran =>
        IF /\ challenge_html.sec
           /\ challenge_html.bmword \/ challenge_html.token # ""
           /\ challenge_html.token # ""
           /\ challenge_html.seed # << >>
        THEN /\ solver_out.posted.sent
             /\ solver_out.posted.bm_verify = challenge_html.token
             /\ solver_out.posted.pow =
                    << DecimalValue(challenge_html.seed) + 902645594 >>
        ELSE ~solver_out.posted.sent

\* C9 witness: the seed 1244838053 was posted as 2147483647.
C9_Witness ==
    /\ solver_out.ran
    /\ challenge_html.seed = << 1, 2, 4, 4, 8, 3, 8, 0, 5, 3 >>
    /\ solver_out.posted = [sent |-> TRUE, bm_verify |-> "tokA", pow |-> << 2147483647 >>]

\* C10 as claimed: a solved page is committed as a Success page, with the
\* items and the next-page signal of the replayed body.
C10_SolvedIsCommitted ==
    last.solved =>
        /\ last.outcome \in Stored
        /\ last.page_urls = last.replay.items
        /\ last.page \in Range(progress_file.pages_scraped)

\* C10, amended. A solved page is handled as a Success page on the replayed
\* body: its items and its next-page signal are the replayed body's, and it
\* is committed with those items merged, unless it has no items and is the
\* second empty page in a row, which stops the run uncommitted.
C10_SolvedUsesReplay ==
    /\ [](last.solved =>
            /\ last.used = last.replay
            /\ last.page_urls = last.replay.items
            /\ \/ /\ last.outcome = "EmptyStop"
                  /\ last.replay.items = << >>
                  /\ last.before >= 1
                  /\ last.page \notin Range(pages_scraped)
               \/ /\ last.outcome \in Stored
                  /\ last.replay.items = << >> => last.before = 0
                  /\ last.outcome = "EndOfResults" <=>
                         (~last.replay.pager /\ last.replay.items # << >>)
                  /\ last.page \in Range(progress_file.pages_scraped)
                  /\ progress_file.last_page = last.page \/ pc = "done"
                  /\ progress_file.all_urls = all_urls)
    /\ [][ (pc = "inflight" /\ last'.solved /\ last'.outcome \in Stored) =>
             /\ Urls(all_urls') = Urls(all_urls) \cup Urls(last'.replay.items)
             /\ \A i \in 1 .. Len(all_urls) : all_urls'[i] = all_urls[i] ]_vars

\* C10 witness: the challenge body was solved and the replayed body's
\* document, not the challenge body's, was committed.
C10_Witness ==
    /\ last.solved
    /\ last.outcome = "Committed"
    /\ last.text = ChallengeBody
    /\ last.page_urls = << d2 >>
    /\ all_urls = << d2 >>
    /\ progress_file.all_urls = << d2 >>

\* The progress file holds an object main() can resume from.
IsCheckpoint(file) == file.exists /\ file.json = "object"

\* C11. Resume point.  A run without --reset and without --start-page that
\* finds a checkpoint (the progress file, or else the legacy file) starts at
\* its last_page + 1; a given start page is the start page whatever is on
\* disk; with nothing to load the run starts at page 0.  The first request
\* of the run is for the first page from there on that is not yet scraped.
C11_ResumePoint ==
    (pc # "idle" /\ prior.progress_file.last_page_type # "str") =>
        LET f == prior.progress_file
            explicit == args.start_page # << >>
        IN  /\ (~args.reset /\ ~explicit /\ IsCheckpoint(f)) =>
                   start_page = f.last_page + 1
            /\ (~args.reset /\ ~explicit /\ ~IsCheckpoint(f)
                  /\ legacy_json_file.exists) =>
                   start_page = legacy_json_file.last_page + 1
            /\ explicit => start_page = args.start_page[1]
            /\ (~args.reset /\ ~explicit /\ ~IsCheckpoint(f)
                  /\ ~legacy_json_file.exists) =>
                   start_page = 0
            /\ (pc \in { "for", "inflight" } /\ last = NoLast) =>
                   /\ page >= start_page
                   /\ \A q \in start_page .. page - 1 :
                        q \in Range(existing_output.pages_scraped)

\* C11 witness: a run with neither flag found the checkpoint of page 0 and
\* its first request is for page 1.
C11_Witness ==
    /\ ~args.reset
    /\ args.start_page = << >>
    /\ prior.progress_file = Checkpoint(0, << 0 >>, << d1 >>)
    /\ pc = "inflight"
    /\ last = NoLast
    /\ requests = [page |-> 1, count |-> 1, limited |-> 0]

\* Everything the server sends for page q.
ServedUrls(q) ==
    Urls(server.answer[q].resp.text.items) \cup Urls(server.answer[q].env.text.items)

\* C12. Reset.  A run with --reset starts at page 0, or at the given start
\* page; it never finds its page among the scraped ones; and the checkpoints
\* and the item lists it writes hold only pages it walked and only items the
\* server sent it for those pages, whatever the disk held before.
C12_Reset ==
    (args.reset /\ pc # "idle") =>
        /\ start_page = (IF args.start_page # << >> THEN args.start_page[1] ELSE 0)
        /\ pc = "loop" => page \notin Range(pages_scraped)
        /\ writes >= 1 =>
               /\ Range(progress_file.pages_scraped) \subseteq start_page .. page
               /\ Urls(progress_file.all_urls) \subseteq
                      UNION { ServedUrls(q) : q \in (start_page .. page) \cap Pages }
               /\ Urls(jsonl_file.lines) \subseteq
                      UNION { ServedUrls(q) : q \in (start_page .. page) \cap Pages }

\* C12 witness: the disk held page 0 with document u1; the run with --reset
\* fetched page 0 again, got u2, and the checkpoint it wrote holds u2 alone.
C12_Witness ==
    /\ args.reset
    /\ prior.progress_file = Checkpoint(0, << 0 >>, << d1 >>)
    /\ writes >= 1
    /\ progress_file = Checkpoint(0, << 0 >>, << d2 >>)

\* What a run loaded is the checkpoint the file holds.
LoadedFrom(out, file) ==
    /\ out.exists
    /\ out.last_page = file.last_page
    /\ out.pages_scraped = file.pages_scraped
    /\ out.all_urls = file.all_urls

\* C13. Atomic commit: after the process was killed while writing a
\* checkpoint (a page's commit or the final save) over a good one, the next
\* run loads the previous checkpoint or the new one, whole; it never finds
\* no checkpoint, or fewer pages or items than the previous one held.
C13_AtomicCommit ==
    ( /\ phase = "again"
      /\ pc # "idle"
      /\ ~args.reset
      /\ torn.during # "none"
      /\ IsCheckpoint(torn.previous)
      /\ torn.previous.last_page_type = "int" ) =>
        \/ LoadedFrom(existing_output, torn.previous)
        \/ LoadedFrom(existing_output, torn.intended)

\* C14. Commit after every page: while a page request is in flight, the
\* progress file and the item list on disk hold every page and every item
\* the run has stored so far, the page and the items of the last committed
\* page included; before the first commit the run holds nothing beyond what
\* it loaded.  A crash then loses at most the page in flight.
C14_CommitBeforeNextRequest ==
    pc = "inflight" =>
        /\ writes = 0 =>
               /\ pages_scraped = existing_output.pages_scraped
               /\ all_urls = existing_output.all_urls
        /\ writes >= 1 =>
               /\ Range(pages_scraped) = Range(progress_file.pages_scraped)
               /\ progress_file.all_urls = all_urls
               /\ jsonl_file.lines = all_urls
        /\ last.outcome = "Committed" =>
               /\ writes >= 1
               /\ last.page \in Range(progress_file.pages_scraped)
               /\ Urls(last.page_urls) \subseteq Urls(progress_file.all_urls)
               /\ Urls(last.page_urls) \subseteq Urls(jsonl_file.lines)

\* C14 witness: the request for page 2 is in flight and the disk holds pages
\* 0 and 1 with their documents.
C14_Witness ==
    /\ pc = "inflight"
    /\ page = 2
    /\ writes = 2
    /\ last.outcome = "Committed"
    /\ progress_file = Checkpoint(1, << 0, 1 >>, << d1, d2 >>)
    /\ jsonl_file.lines = << d1, d2 >>

IsPrefix(a, b) == Len(a) <= Len(b) /\ SubSeq(b, 1, Len(a)) = a

Ascending(s) == \A i, j \in 1 .. Len(s) : i < j => s[i] < s[j]

\* C15. Progress is never lost.  However the loop ended, the progress file
\* and the item list the run leaves hold every page number of the loaded
\* checkpoint, in ascending order, and its items first and in their order;
\* and every write of the run (a commit or the final save) holds the pages
\* of the write before it and extends its items.
C15_ProgressNeverLost ==
    /\ [](pc = "done" =>
            /\ Range(existing_output.pages_scraped) \subseteq
                   Range(progress_file.pages_scraped)
            /\ Ascending(progress_file.pages_scraped)
            /\ IsPrefix(existing_output.all_urls, progress_file.all_urls)
            /\ jsonl_file.lines = progress_file.all_urls
            /\ last.outcome \in Stored =>
                   /\ last.page \in Range(progress_file.pages_scraped)
                   /\ Urls(last.page_urls) \subseteq Urls(progress_file.all_urls))
    /\ [][ (writes' = writes + 1 /\ writes >= 1) =>
             /\ Range(progress_file.pages_scraped) \subseteq
                    Range(progress_file'.pages_scraped)
             /\ IsPrefix(progress_file.all_urls, progress_file'.all_urls)
             /\ IsPrefix(jsonl_file.lines, jsonl_file'.lines) ]_vars

\* C15 witness: a run that loaded page 1, committed page 0 and then met an
\* error that is no timeout left both pages and both documents.
C15_Witness ==
    /\ pc = "done"
    /\ last.outcome = "FatalError"
    /\ existing_output.pages_scraped = << 1 >>
    /\ writes = 2
    /\ progress_file.pages_scraped = << 0, 1 >>
    /\ progress_file.all_urls = << d2, d1 >>

\* The progress file is missing or is no checkpoint: it holds no valid JSON,
\* no object, or an object whose last_page is no integer.
Unusable(file) ==
    ~file.exists \/ file.json # "object" \/ file.last_page_type # "int"

\* C16. Load tolerance: a run without --reset that finds the progress file
\* missing, unparseable or of the wrong shape (and no legacy file) is not
\* aborted; it loads nothing and starts as a fresh crawl, at page 0 or at
\* the given start page.
C16_LoadTolerance ==
    ( /\ pc # "idle"
      /\ ~args.reset
      /\ Unusable(prior.progress_file)
      /\ ~legacy_json_file.exists ) =>
        /\ pc # "aborted"
        /\ ~existing_output.exists
        /\ start_page = (IF args.start_page # << >> THEN args.start_page[1] ELSE 0)

\* C17. Missing credentials: with COOKIE_SESSION or COOKIE_AK_BMSC not set,
\* the program does not crawl, whatever --reset and --start-page say: no
\* request is issued and the progress file and the item list stay as found.
C17_MissingCredentials ==
    ( /\ pc # "idle"
      /\ environ.COOKIE_SESSION = "" \/ environ.COOKIE_AK_BMSC = "" ) =>
        /\ requests = NoRequests
        /\ progress_file = prior.progress_file
        /\ jsonl_file = prior.jsonl_file

EndingClasses == { "natural_end", "stopped_early", "input_error" }

\* C18. Exit status: of two invocations that ended in different classes
\* (the natural end of results; an early or fatal stop; an input error such
\* as missing credentials), the exit statuses differ.
C18_ExitStatusDistinguishes ==
    ( /\ phase = "again"
      /\ Ended
      /\ Ending \in EndingClasses
      /\ first_exit.ending \in EndingClasses
      /\ first_exit.ending # Ending ) =>
        first_exit.status # exit_status(pc)

\* C19. Any redirect stops the run: a response with a 3xx status, whatever
\* its body, is classified Redirected; the run stops there, with no retry,
\* no extraction and no commit of the page.
C19_AnyRedirectStops ==
    last.status \in 300 .. 399 =>
        /\ last.outcome = "Redirected"
        /\ stop_search
        /\ pc \in { "final", "done" }
        /\ last.page_urls = << >>
        /\ last.page \notin Range(pages_scraped)

\* The last attempt got a response (no exception) with a status outside 3xx.
NonRedirectResponse == last.outcome # "none" /\ last.status # 0
                       /\ last.status \notin 300 .. 399

\* The rate-limit rule on the last response: 503, or the word in any case.
SaysUnavailable == last.status = 503 \/ (last.text.len > 0 /\ last.text.word # "")

\* The outcomes of a page whose body went to extraction.
Success == { "Committed", "EndOfResults", "EmptyStop", "DuplicatePage" }

\* A rate-limited attempt extracted nothing and committed nothing.
NothingTaken ==
    /\ last.outcome = "RateLimited"
    /\ last.used = NoBody
    /\ last.page_urls = << >>
    /\ ~last.posted.sent
    /\ last.page \notin Range(pages_scraped)

\* The solver ran on the last response: it posted, and the attempt either
\* went on with the replayed text or ended ChallengeUnsolved.
SolverInvoked ==
    /\ last.posted.sent
    /\ last.solved \/ last.outcome = "ChallengeUnsolved"

\* The last response went to extraction as it came.
TakenAsContent ==
    /\ last.outcome \in Success
    /\ last.used = last.text
    /\ ~last.posted.sent

\* C20 as stated. Classification order of a non-redirect response: 503 or
\* "unavailable" is RateLimited; otherwise a body under the threshold with
\* the challenge markers invokes the solver; otherwise a body under the
\* threshold is TooSmall; only otherwise is the page a success.
C20_OrderAsStated ==
    NonRedirectResponse =>
        IF SaysUnavailable THEN NothingTaken
        ELSE IF last.text.len < REAL_CONTENT_SIZE /\ HasMarkers(last.text)
        THEN SolverInvoked
        ELSE IF last.text.len < REAL_CONTENT_SIZE
        THEN last.outcome = "TooSmall" /\ ~last.posted.sent
        ELSE TakenAsContent

\* C20. Classification order of a non-redirect response: 503 or
\* "unavailable" in any letter case is RateLimited, whatever the size and
\* the markers, and nothing is extracted or committed; otherwise a 4xx or
\* 5xx status is an error (TimedOut or FatalError), whatever the body;
\* otherwise a body under the threshold from which token and seed parse
\* invokes the solver; otherwise a body under the threshold is TooSmall;
\* only otherwise is the page a success.
C20_ClassificationOrder ==
    NonRedirectResponse =>
        IF SaysUnavailable THEN NothingTaken
        ELSE IF last.status >= 400
        THEN last.outcome \in { "TimedOut", "FatalError" } /\ last.used = NoBody
        ELSE IF /\ last.text.len < REAL_CONTENT_SIZE
                /\ HasMarkers(last.text)
                /\ last.text.token # "" /\ last.text.seed # << >>
        THEN SolverInvoked
        ELSE IF last.text.len < REAL_CONTENT_SIZE
        THEN last.outcome = "TooSmall" /\ ~last.posted.sent
        ELSE TakenAsContent

\* A body over the threshold with documents and the word "unavailable"
\* came back, and a body under it with the challenge and the word.
C20_Witness ==
    /\ last.outcome = "RateLimited"
    /\ last.status = 200
    /\ \/ last.text.len > REAL_CONTENT_SIZE /\ last.text.items # << >>
       \/ last.text.len < REAL_CONTENT_SIZE /\ HasMarkers(last.text)

\* The text of the debug file written for page p.
DebugTexts(p) == { f.text : f \in { g \in debug_files : g.name = << "page", p >> } }

\* C21. Solver failure result: whenever the solver returns solved = false,
\* the body it returns is the original challenge body, so the debug file
\* written for the page holds the original challenge body.
C21_FailureKeepsChallenge ==
    last.outcome = "ChallengeUnsolved" =>
        /\ last.used = last.text
        /\ DebugTexts(last.page) = { last.text }

\* The solver ran on the last response and the network failed its POST or
\* its replay GET.
SolverRequestFailed ==
    last.posted.sent /\ (last.env.post_raises \/ last.env.get_raises)

\* C22. The solver never raises: when its verification POST or its replay
\* GET fails, the attempt ends as an unsolved challenge; the run stops with
\* the page not marked scraped, and the page is not retried as a timeout.
C22_SolverNeverRaises ==
    SolverRequestFailed =>
        /\ last.outcome = "ChallengeUnsolved"
        /\ ~last.solved
        /\ last.wait = 0
        /\ stop_search
        /\ pc \in { "final", "done" }
        /\ last.page \notin Range(pages_scraped)

\* The replay GET of the solver failed.
C22_Witness ==
    /\ SolverRequestFailed
    /\ last.env.get_raises
    /\ last.outcome = "ChallengeUnsolved"

\* The solver ran on the last response and its replay GET was answered.
Replayed == last.posted.sent /\ ~last.env.post_raises /\ ~last.env.get_raises

\* The last response reached the size rule of the first fetch.
SizeJudged ==
    /\ NonRedirectResponse
    /\ ~SaysUnavailable
    /\ last.status < 400
    /\ ~last.posted.sent

\* C23. Real-content threshold: a body is undersized exactly when its
\* length is below 10000, on the first fetch (TooSmall or not) and on the
\* solver's replay (solved or not) alike; a body of exactly 10000 is real
\* content in both places.
C23_ThresholdBoundary ==
    /\ SizeJudged =>
          (last.outcome = "TooSmall" <=> last.text.len < REAL_CONTENT_SIZE)
    /\ Replayed =>
          (last.solved <=> ~(last.env.text.len < REAL_CONTENT_SIZE))

\* C24. After a successful solve the replayed response is classified as an
\* original fetch is: a replay with a redirect status is Redirected, a
\* replay with status 503 or with "unavailable" in its text is RateLimited,
\* and neither is committed; the solve takes no attempt of the page.
C24_ReplayIsClassified ==
    (Replayed /\ last.solved) =>
        /\ last.env.status \in 300 .. 399 => last.outcome = "Redirected"
        /\ ( /\ last.env.status \notin 300 .. 399
             /\ last.env.status = 503 \/ last.env.text.word # "" ) =>
               last.outcome = "RateLimited"
        /\ ( \/ last.env.status \in 300 .. 399
             \/ last.env.status = 503
             \/ last.env.text.word # "" ) =>
               last.page \notin Range(pages_scraped)
        /\ requests.page = last.page => requests.count = last.attempt + 1

\* The outcomes of an attempt that stop the run with a debug file.
Terminal == { "TooSmall", "ChallengeUnsolved" }

\* C25. TooSmall and ChallengeUnsolved are terminal: the attempt is the last
\* request of the run (no retry, no later page), a debug file holding the
\* body that was judged is written for the page, the page is not added to
\* pages_scraped and the documents are unchanged.
C25_TerminalStop ==
    /\ [](last.outcome \in Terminal =>
            /\ stop_search
            /\ pc \in { "final", "done" }
            /\ last.wait = 0
            /\ requests.page = last.page
            /\ requests.count = last.attempt + 1
            /\ DebugTexts(last.page) = { last.used }
            /\ last.page \notin Range(pages_scraped))
    /\ [][(pc = "inflight" /\ last'.outcome \in Terminal) =>
            /\ pages_scraped' = pages_scraped
            /\ all_urls' = all_urls
            /\ progress_file' = progress_file
            /\ jsonl_file' = jsonl_file]_vars

\* A run that held documents ended on an undersized body.
C25_Witness ==
    /\ last.outcome = "TooSmall"
    /\ pc = "done"
    /\ all_urls # << >>
    /\ DebugTexts(last.page) = { last.text }

\* The outcomes of an attempt that the for loop retries.
Retried == { "RateLimited", "TimedOut" }

\* C26. Shared retry budget: the requests issued for one page, whatever the
\* mix of RateLimited and TimedOut attempts, never number more than
\* max_retries; each such attempt sleeps unavailable_wait and leaves the
\* page where it is; when the attempts are used up the run stops instead
\* of going to the next page.
C26_SharedRetryBudget ==
    /\ [](pc # "idle" => requests.count <= args.max_retries)
    /\ [](last.outcome \in Retried =>
            /\ last.wait = 1
            /\ page = last.page
            /\ requests.page = last.page
            /\ requests.count = last.attempt + (IF pc = "inflight" THEN 2 ELSE 1)
            /\ last.page \notin Range(pages_scraped)
            /\ pc \in { "for", "inflight", "final", "done" }
            /\ last.attempt + 1 = args.max_retries => pc # "inflight")
    /\ [][(pc = "for" /\ attempt >= args.max_retries) =>
            /\ pc' = "final"
            /\ page' = page
            /\ requests' = requests
            /\ pages_scraped' = pages_scraped]_vars

\* One page was answered RateLimited once and TimedOut once, which used up
\* the attempts, and the run is over.
C26_Witness ==
    /\ pc = "done"
    /\ args.max_retries = MaxRetriesArg
    /\ requests.count = MaxRetriesArg
    /\ requests.limited = 1
    /\ last.outcome = "TimedOut"
    /\ last.attempt = MaxRetriesArg - 1

\* C27. End of results: a page with at least one document and no next
\* entry in the pager is committed and stops the run; a page with at least
\* one document and a next entry is committed and the run goes on to
\* page + 1 after a delay sleep; a page with no document and no next entry
\* does not stop the run on that ground (it is committed and the run goes
\* on, unless it is the second empty page in a row).
C27_EndOfResults ==
    /\ (Extracted /\ last.page_urls # << >> /\ ~last.used.pager) =>
           /\ last.outcome = "EndOfResults"
           /\ last.page \in Range(pages_scraped)
           /\ last.page \in Range(progress_file.pages_scraped)
           /\ Urls(last.page_urls) \subseteq Urls(progress_file.all_urls)
           /\ stop_search
           /\ pc \in { "final", "done" }
           /\ page = last.page
           /\ last.delay = 0
    /\ (Extracted /\ last.page_urls # << >> /\ last.used.pager) =>
           /\ last.outcome = "Committed"
           /\ last.page \in Range(pages_scraped)
           /\ last.page \in Range(progress_file.pages_scraped)
           /\ Urls(last.page_urls) \subseteq Urls(progress_file.all_urls)
           /\ ~stop_search
           /\ page >= last.page + 1
           /\ last.delay = 1
    /\ (Extracted /\ last.page_urls = << >> /\ ~last.used.pager /\ last.before = 0) =>
           /\ last.outcome = "Committed"
           /\ ~stop_search
           /\ page >= last.page + 1
           /\ last.delay = 1

\* A page with a next entry was committed, and the page after it, with
\* documents and no next entry, ended the run.
C27_Witness ==
    /\ last.outcome = "EndOfResults"
    /\ pc = "done"
    /\ writes = 2
    /\ last.page \in Range(pages_scraped)
    /\ last.page - 1 \in Range(pages_scraped)

\* The outcomes of an attempt that did not get the page.
Failed == { "RateLimited", "TimedOut", "Redirected", "TooSmall",
            "ChallengeUnsolved", "FatalError" }

\* The checkpoint the run holds before its final save: that of its last
\* commit, or the loaded one (an empty one when nothing was loaded).
LastCheckpoint ==
    IF writes >= 1 THEN progress_file
    ELSE IF existing_output.exists
    THEN Checkpoint(existing_output.last_page, existing_output.pages_scraped,
                    existing_output.all_urls)
    ELSE Checkpoint(-1, << >>, << >>)

\* C28. Failed attempts do not change the checkpoint: an attempt that is
\* RateLimited, TimedOut, Redirected, TooSmall, ChallengeUnsolved or
\* FatalError leaves pages_scraped, the documents and the files as they
\* were, and the checkpoint on disk after a run that ended on such an
\* attempt has the pages_scraped, all_urls and last_page of the last commit
\* (of the loaded checkpoint if the run committed nothing).
C28_FailedAttemptsKeepCheckpoint ==
    [][ /\ (pc = "inflight" /\ last'.outcome \in Failed) =>
              /\ pages_scraped' = pages_scraped
              /\ all_urls' = all_urls
              /\ progress_file' = progress_file
              /\ jsonl_file' = jsonl_file
        /\ (pc = "final" /\ pc' = "done" /\ last.outcome \in Failed) =>
              /\ progress_file'.pages_scraped = LastCheckpoint.pages_scraped
              /\ progress_file'.all_urls = LastCheckpoint.all_urls
              /\ progress_file'.last_page = LastCheckpoint.last_page ]_vars

\* C29. Serialized, ordered, delayed fetching: within one run the page
\* numbers of successive requests never decrease; a request is sent only
\* when none is in flight; and the first request of a page that follows an
\* earlier attempt of the run follows a committed page and its delay sleep.
C29_SerializedOrderedDelayed ==
    /\ [][ /\ (requests.page # -1 /\ requests'.page # -1) =>
                 requests'.page >= requests.page
           /\ requests'.count > requests.count =>
                 /\ pc = "for"
                 /\ pc' = "inflight"
                 /\ requests'.count = requests.count + 1
                 /\ requests'.page = page ]_vars
    /\ []((pc = "inflight" /\ requests.count = 1 /\ last.outcome # "none") =>
            /\ last.outcome = "Committed"
            /\ last.delay = 1
            /\ last.page < requests.page)

\* The first request of a page is in flight after the page before it was
\* committed.
C29_Witness ==
    /\ pc = "inflight"
    /\ requests.count = 1
    /\ last.outcome = "Committed"
    /\ requests.page = last.page + 1
    /\ last.delay = 1

\* The run has a --max-pages of at least 1.
HasMaxPages == pc # "idle" /\ ~IsNone(args.max_pages) /\ Val(args.max_pages) >= 1

\* C30. Max pages: with --max-pages M (M >= 1) and start page s every
\* request is for a page from s to s + M - 1, so for at most M distinct
\* pages, skipped pages included in the count; the page cursor never
\* passes s + M, and at s + M the loop ends without a request.
C30_MaxPages ==
    /\ [](HasMaxPages =>
            /\ requests.page # -1 =>
                  /\ requests.page >= start_page
                  /\ requests.page < start_page + Val(args.max_pages)
            /\ page >= start_page
            /\ page <= start_page + Val(args.max_pages)
            /\ page = start_page + Val(args.max_pages) =>
                  pc \in { "loop", "final", "done" })
    /\ [][(HasMaxPages /\ page = start_page + Val(args.max_pages) /\ pc = "loop") =>
             /\ pc' = "final"
             /\ page' = page
             /\ requests' = requests]_vars

\* A run with --max-pages 2 skipped a page of the loaded checkpoint,
\* fetched the other page and ended at the limit.
C30_Witness ==
    /\ pc = "done"
    /\ HasMaxPages
    /\ Val(args.max_pages) = MaxPagesArg
    /\ page = start_page + MaxPagesArg
    /\ existing_output.exists
    /\ \E q \in Range(existing_output.pages_scraped) :
          q >= start_page /\ q < start_page + MaxPagesArg
    /\ last.outcome = "Committed"
    /\ Len(pages_scraped) = Len(existing_output.pages_scraped) + 1

\* The last attempt met an error that is no timeout: an exception of the
\* transport whose message names none, or a 4xx or 5xx status other than
\* 408 and 504 (and other than the 503 of the rate-limit rule).
NonTimeoutError ==
    /\ last.outcome # "none"
    /\ \/ last.exc # "" /\ ~IsTimeoutMsg(last.exc)
       \/ /\ last.exc = ""
          /\ last.status >= 400
          /\ last.status \notin { 408, 503, 504 }
          /\ ~SaysUnavailable

\* C31. An error that is no timeout does not leave the crawl loop as an
\* exception: the attempt is a FatalError, the run stops without retry and
\* without a sleep, the page is not marked scraped, and the final save
\* writes the checkpoint.
C31_ErrorsStopTheRun ==
    NonTimeoutError =>
        /\ last.outcome = "FatalError"
        /\ last.wait = 0
        /\ pc \in { "final", "done" }
        /\ page = last.page
        /\ requests.count = last.attempt + 1
        /\ last.page \notin Range(pages_scraped)
        /\ pc = "done" =>
              /\ progress_file.exists
              /\ progress_file.pages_scraped = sorted(pages_scraped)
              /\ progress_file.all_urls = all_urls

\* C32. Transport recycling replaces the handle: after every refresh,
\* whether it succeeded or failed part-way, the session of the next request
\* is open and carries the cookies of the session it replaced; no request
\* goes out on a closed session.
C32_RecycleReplacesHandle ==
    /\ (recycled.after # "none" /\ pc = "ready") =>
           /\ session.open
           /\ session.cookies = recycled.replaced.cookies
    /\ used # NoHandle => used.open

\* The {url, title} records of a sequence of items, in its order.
Records(items) == [i \in 1 .. Len(items) |-> Doc(items[i].url, items[i].title)]

\* The item sequence persisted before the next write of the run: what the
\* run loaded before its first write, the progress file afterwards.
PersistedItems ==
    IF writes = 0 THEN existing_output.all_urls ELSE progress_file.all_urls

\* C33. Append-only item list.  In a run without --reset every write of the
\* checkpoint (a page's commit or the final save) persists an item sequence
\* that has the sequence of the write before it, or the loaded sequence at
\* the first write, as a prefix: no record is removed, moved or changed.
\* After every write the item list file holds exactly the {url, title}
\* records of the checkpoint's items, in the same order.
C33_AppendOnlyItems ==
    /\ []((~args.reset /\ writes >= 1) =>
            /\ IsPrefix(existing_output.all_urls, progress_file.all_urls)
            /\ jsonl_file.exists
            /\ jsonl_file.lines = Records(progress_file.all_urls))
    /\ [][ (~args.reset /\ writes' = writes + 1) =>
             /\ IsPrefix(PersistedItems, progress_file'.all_urls)
             /\ jsonl_file'.lines = Records(progress_file'.all_urls) ]_vars

\* C33 witness: a run loaded one item, committed a page that repeated its
\* url under another title and brought a new item, and wrote once more; the
\* loaded record is first and unchanged, the new one follows it.
C33_Witness ==
    /\ ~args.reset
    /\ writes >= 2
    /\ existing_output.all_urls = << d1 >>
    /\ progress_file.all_urls = << d1, d2 >>
    /\ jsonl_file.lines = << d1, d2 >>
    /\ \E i \in 1 .. Len(last.page_urls) : last.page_urls[i] = d1b

\* A page request was answered with a page that was parsed and held no
\* document.
EmptyPageAnswered ==
    /\ pc = "inflight"
    /\ pc' \notin { "inflight", "crashed" }
    /\ last'.outcome \in { "Committed", "EndOfResults", "EmptyStop", "DuplicatePage" }
    /\ last'.page_urls = << >>

\* A run that resumed from the progress file the run before it left.
ResumedFromPrior ==
    /\ phase = "again"
    /\ pc \notin { "idle", "aborted", "refused" }
    /\ ~args.reset
    /\ IsCheckpoint(prior.progress_file)

\* C34. An empty page is committed like any other.  A page that was parsed
\* and held no document, and is not the second empty page in a row, is
\* appended to pages_scraped and the progress file is written with that
\* page among its pages, last_page set to it and the items as they were;
\* the run moves on to the next page.  The second empty page in a row is
\* not added and nothing is written for it.  A later run that resumes from
\* the progress file requests no page the file holds, so it does not fetch
\* the committed empty page again.
C34_EmptyPageCommitted ==
    /\ [][ (EmptyPageAnswered /\ consecutive_empty = 0) =>
             /\ pages_scraped' = Append(pages_scraped, page)
             /\ writes' = writes + 1
             /\ page \in Range(progress_file'.pages_scraped)
             /\ progress_file'.last_page = page
             /\ progress_file'.all_urls = all_urls
             /\ jsonl_file'.lines = Records(all_urls)
             /\ all_urls' = all_urls
             /\ page' = page + 1
             /\ ~stop_search' ]_vars
    /\ [][ (EmptyPageAnswered /\ consecutive_empty >= 1) =>
             /\ pages_scraped' = pages_scraped
             /\ writes' = writes
             /\ progress_file' = progress_file
             /\ jsonl_file' = jsonl_file
             /\ stop_search' ]_vars
    /\ [](ResumedFromPrior =>
            /\ Range(prior.progress_file.pages_scraped) \subseteq Range(pages_scraped)
            /\ pc \in { "for", "inflight" } =>
                   page \notin Range(prior.progress_file.pages_scraped))

\* C34 witness: a first run from no progress file, started at page 1, found
\* page 1 empty and committed it, and stopped at page 2, empty as well.  The
\* second run, started at page 1 again, loaded the checkpoint that holds
\* page 1 and no item, passed page 1 over and has requested page 2.
C34_Witness ==
    /\ ResumedFromPrior
    /\ prior.progress_file = Checkpoint(1, << 1 >>, << >>)
    /\ start_page = 1
    /\ page = 2
    /\ pc = "inflight"
    /\ requests.count = 1

====
